---------------------------- MODULE Spec2Model ----------------------------
(***************************************************************************)
(* Ray/sphere intersection of src/src/sphere.rs: the two constructors of   *)
(* Sphere, Hittable::hit, Hittable::bounding_box and the two standalone    *)
(* solvers hit_sphere_naive and hit_sphere.                                *)
(*                                                                         *)
(* Numbers.  The code computes in f64.  The model computes exactly in the  *)
(* field Q(sqrt d): a finite number is (p + q*sqrt(d)) / r with integers   *)
(* p, q, a square-free d >= 1 and r > 0, kept in lowest terms, so that     *)
(* equal values are equal records.  One call of hit takes one square root, *)
(* so one radical per call is enough.  The IEEE values that the code can   *)
(* produce by dividing by a zero radius are kept: NaN and +/-infinity,     *)
(* with IEEE comparison (every comparison with NaN is false).  Rounding    *)
(* and the sign of zero are not modelled.                                  *)
(***************************************************************************)
EXTENDS Integers, Sequences, FiniteSets, TLC

VARIABLES sphere, ctor, rec, call

vars == <<sphere, ctor, rec, call>>

-----------------------------------------------------------------------------
(* Bounds of the explored inputs.                                          *)

MaxCoord == 1

MaxRadius == 1

-----------------------------------------------------------------------------
(* Integer helpers.                                                        *)

Abs(n) == IF n < 0 THEN -n ELSE n

RECURSIVE Gcd(_, _)
Gcd(a, b) == IF b = 0 THEN a ELSE Gcd(b, a % b)

SgnInt(n) == IF n > 0 THEN 1 ELSE IF n < 0 THEN -1 ELSE 0

(* n = k*k*m with m square-free: SquarePart(n, 1, 2) = <<k, m>>.           *)
RECURSIVE SquarePart(_, _, _)
SquarePart(n, k, f) ==
    IF f * f > n THEN <<k, n>>
    ELSE IF n % (f * f) = 0 THEN SquarePart(n \div (f * f), k * f, f)
    ELSE SquarePart(n, k, f + 1)

-----------------------------------------------------------------------------
(* f64 values.                                                             *)

NaN == [k |-> "nan", p |-> 0, q |-> 0, d |-> 1, r |-> 1]

Inf(s) == [k |-> "inf", p |-> s, q |-> 0, d |-> 1, r |-> 1]

(* (p + q*sqrt(d)) / r in lowest terms, r > 0.                             *)
Fin(p, q, d, r) ==
    LET s  == IF r < 0 THEN -1 ELSE 1
        g  == Gcd(Gcd(Abs(p), Abs(q)), Abs(r))
    IN [k |-> "fin", p |-> (s * p) \div g, q |-> (s * q) \div g,
        d |-> IF q = 0 THEN 1 ELSE d, r |-> (s * r) \div g]

Rat(n, m) == Fin(n, 0, 1, m)

I(n) == Rat(n, 1)

IsFin(x) == x.k = "fin"

IsNaN(x) == x.k = "nan"

(* The radical two finite operands share.                                  *)
Rad(x, y) == IF x.q # 0 THEN x.d ELSE y.d

(* Sign of a value: -1, 0, 1 (NaN has none and is excluded by callers).    *)
Sgn(x) ==
    IF x.k = "inf" THEN x.p
    ELSE IF x.q = 0 THEN SgnInt(x.p)
    ELSE IF x.p = 0 THEN SgnInt(x.q)
    ELSE IF SgnInt(x.p) = SgnInt(x.q) THEN SgnInt(x.p)
    ELSE IF x.p > 0 THEN SgnInt(x.p * x.p - x.q * x.q * x.d)
    ELSE SgnInt(x.q * x.q * x.d - x.p * x.p)

Neg(x) ==
    IF IsNaN(x) THEN NaN
    ELSE IF x.k = "inf" THEN Inf(-x.p)
    ELSE Fin(-x.p, -x.q, x.d, x.r)

Add(x, y) ==
    IF IsNaN(x) \/ IsNaN(y) THEN NaN
    ELSE IF x.k = "inf" /\ y.k = "inf" THEN (IF x.p = y.p THEN x ELSE NaN)
    ELSE IF x.k = "inf" THEN x
    ELSE IF y.k = "inf" THEN y
    ELSE Fin(x.p * y.r + y.p * x.r, x.q * y.r + y.q * x.r, Rad(x, y), x.r * y.r)

Sub(x, y) == Add(x, Neg(y))

Mul(x, y) ==
    IF IsNaN(x) \/ IsNaN(y) THEN NaN
    ELSE IF x.k = "inf" \/ y.k = "inf"
         THEN (IF Sgn(x) * Sgn(y) = 0 THEN NaN ELSE Inf(Sgn(x) * Sgn(y)))
    ELSE Fin(x.p * y.p + x.q * y.q * Rad(x, y), x.p * y.q + x.q * y.p,
             Rad(x, y), x.r * y.r)

(* IEEE division: x / 0 is NaN for x = 0 and an infinity otherwise.        *)
Div(x, y) ==
    IF IsNaN(x) \/ IsNaN(y) THEN NaN
    ELSE IF y.k = "inf" THEN (IF x.k = "inf" THEN NaN ELSE I(0))
    ELSE IF x.k = "inf" THEN Inf(IF Sgn(y) < 0 THEN -x.p ELSE x.p)
    ELSE IF Sgn(y) = 0 THEN (IF Sgn(x) = 0 THEN NaN ELSE Inf(Sgn(x)))
    ELSE LET n == y.p * y.p - y.q * y.q * Rad(x, y)
             c == Fin(y.p * y.r, -(y.q * y.r), Rad(x, y), 1)
             m == Mul(x, c)
         IN Fin(m.p, m.q, m.d, m.r * n)

(* IEEE <: false when either side is NaN.                                  *)
Lt(x, y) ==
    IF IsNaN(x) \/ IsNaN(y) THEN FALSE
    ELSE IF x.k = "inf" /\ y.k = "inf" THEN x.p < y.p
    ELSE Sgn(Sub(y, x)) = 1

Le(x, y) == Lt(x, y) \/ (~IsNaN(x) /\ ~IsNaN(y) /\ x = y)

(* f64::sqrt of a rational: NaN below zero.                                *)
Sqrt(x) ==
    IF IsNaN(x) THEN NaN
    ELSE IF x.k = "inf" THEN (IF x.p > 0 THEN x ELSE NaN)
    ELSE IF x.p < 0 THEN NaN
    ELSE IF x.p = 0 THEN I(0)
    ELSE LET km == SquarePart(x.p * x.r, 1, 2)
         IN IF km[2] = 1 THEN Rat(km[1], x.r) ELSE Fin(0, km[1], km[2], x.r)

(* f64::max and f64::min.                                                  *)
FMax(x, y) == IF IsNaN(x) THEN y ELSE IF IsNaN(y) THEN x ELSE IF Lt(x, y) THEN y ELSE x

FMin(x, y) == IF IsNaN(x) THEN y ELSE IF IsNaN(y) THEN x ELSE IF Lt(y, x) THEN y ELSE x

-----------------------------------------------------------------------------
(* vec3: Vec3 / Point3 and the operations sphere.rs uses.                  *)

Vec3New(x, y, z) == <<x, y, z>>

Vec3Default == <<I(0), I(0), I(0)>>

VAdd(a, b) == <<Add(a[1], b[1]), Add(a[2], b[2]), Add(a[3], b[3])>>

VSub(a, b) == <<Sub(a[1], b[1]), Sub(a[2], b[2]), Sub(a[3], b[3])>>

VNeg(a) == <<Neg(a[1]), Neg(a[2]), Neg(a[3])>>

VScale(t, a) == <<Mul(t, a[1]), Mul(t, a[2]), Mul(t, a[3])>>

VDiv(a, t) == <<Div(a[1], t), Div(a[2], t), Div(a[3], t)>>

dot(a, b) == Add(Add(Mul(a[1], b[1]), Mul(a[2], b[2])), Mul(a[3], b[3]))

length_squared(a) == dot(a, a)

-----------------------------------------------------------------------------
(* ray: origin, direction, time; at(t) = origin + t * direction.           *)

RayNew(origin, direction) == [orig |-> origin, dir |-> direction, tm |-> I(0)]

RayWithTime(origin, direction, time) == [orig |-> origin, dir |-> direction, tm |-> time]

RayAt(r, t) == VAdd(r.orig, VScale(t, r.dir))

-----------------------------------------------------------------------------
(* interval: surrounds is strict on both ends.                             *)

IntervalNew(lo, hi) == [min |-> lo, max |-> hi]

surrounds(i, x) == Lt(i.min, x) /\ Lt(x, i.max)

contains(i, x) == Le(i.min, x) /\ Le(x, i.max)

-----------------------------------------------------------------------------
(* aabb: a box from two corners (per-axis min and max, a zero-width slab   *)
(* widened by a small padding) and the union of two boxes.                 *)

Padding == Rat(1, 10000)

PadSlab(i) ==
    IF i.min = i.max THEN IntervalNew(Sub(i.min, Padding), Add(i.max, Padding)) ELSE i

Slab(a, b) == PadSlab(IntervalNew(FMin(a, b), FMax(a, b)))

with_points(a, b) == [x |-> Slab(a[1], b[1]), y |-> Slab(a[2], b[2]), z |-> Slab(a[3], b[3])]

Hull(i, j) == IntervalNew(FMin(i.min, j.min), FMax(i.max, j.max))

with_boxes(b1, b2) == [x |-> Hull(b1.x, b2.x), y |-> Hull(b1.y, b2.y), z |-> Hull(b1.z, b2.z)]

InBox(b, pt) == contains(b.x, pt[1]) /\ contains(b.y, pt[2]) /\ contains(b.z, pt[3])

-----------------------------------------------------------------------------
(* hittable: the hit record and its face-normal convention.                *)

NoMaterial == "None"

(* A texture coordinate is kept as the angle's arguments: Angle(fn, a, b)  *)
(* stands for the f64 the code computes from them; Lit(x) is the number x. *)
Lit(x) == [fn |-> "lit", a |-> x, b |-> I(0)]

Angle(f, a, b) == [fn |-> f, a |-> a, b |-> b]

HitRecordDefault ==
    [p |-> Vec3Default, normal |-> Vec3Default, t |-> I(0), front_face |-> FALSE,
     u |-> Lit(I(0)), v |-> Lit(I(0)), material |-> NoMaterial]

set_face_normal(h, r, outward_normal) ==
    LET ff == Lt(dot(r.dir, outward_normal), I(0))
    IN [h EXCEPT !.front_face = ff,
                 !.normal = IF ff THEN outward_normal ELSE VNeg(outward_normal)]

-----------------------------------------------------------------------------
(* sphere.rs: the constructors.                                            *)

SphereNew(static_center, radius, material) ==
    LET rvec == Vec3New(radius, radius, radius)
    IN [center   |-> RayNew(static_center, Vec3Default),
        radius   |-> FMax(I(0), radius),
        material |-> material,
        bbox     |-> with_points(VSub(static_center, rvec), VAdd(static_center, rvec))]

(* Mutant: the box of the sphere at time 0 only.                            *)
SphereNewMovingBoxAtStart(center1, center2, radius, material) ==
    LET center == RayNew(center1, VSub(center2, center1))
        rvec   == Vec3New(radius, radius, radius)
        box1   == with_points(VSub(RayAt(center, I(0)), rvec), VAdd(RayAt(center, I(0)), rvec))
    IN [center   |-> RayNew(center1, VSub(center2, center1)),
        radius   |-> radius,
        material |-> material,
        bbox     |-> box1]

SphereNewMoving(center1, center2, radius, material) ==
    LET center == RayNew(center1, VSub(center2, center1))
        rvec   == Vec3New(radius, radius, radius)
        box1   == with_points(VSub(RayAt(center, I(0)), rvec), VAdd(RayAt(center, I(0)), rvec))
        box2   == with_points(VSub(RayAt(center, I(1)), rvec), VAdd(RayAt(center, I(1)), rvec))
    IN [center   |-> RayNew(center1, VSub(center2, center1)),
        radius   |-> radius,
        material |-> material,
        bbox     |-> with_boxes(box1, box2)]

(* get_sphere: u = (atan2(-p.z, p.x) + PI) / (2 PI), v = acos(-p.y) / PI.  *)
get_sphere(p) == [u |-> Angle("atan2", Neg(p[3]), p[1]), v |-> Angle("acos", Neg(p[2]), I(0))]

-----------------------------------------------------------------------------
(* sphere.rs: Hittable for Sphere.                                         *)

(* The record a successful hit writes for the chosen root.                 *)
FillRecord(self, r, current_center, root, h) ==
    LET p              == RayAt(r, root)
        h1             == [h EXCEPT !.t = root, !.p = p, !.material = self.material]
        outward_normal == VDiv(VSub(p, current_center), self.radius)
        h2             == set_face_normal(h1, r, outward_normal)
        uv             == get_sphere(outward_normal)
    IN [h2 EXCEPT !.u = uv.u, !.v = uv.v]

(* Mutant: the larger root is tried first.                                 *)
HitLargerRootFirst(self, r, ray_t, h) ==
    LET current_center == RayAt(self.center, r.tm)
        oc             == VSub(current_center, r.orig)
        a              == length_squared(r.dir)
        hh             == dot(r.dir, oc)
        c              == Sub(length_squared(oc), Mul(self.radius, self.radius))
        discriminant   == Sub(Mul(hh, hh), Mul(a, c))
        sqrtd          == Sqrt(discriminant)
        root1          == Div(Add(hh, sqrtd), a)
        root2          == Div(Sub(hh, sqrtd), a)
    IN IF Lt(discriminant, I(0)) THEN [ret |-> FALSE, rec |-> h]
       ELSE IF surrounds(ray_t, root1)
            THEN [ret |-> TRUE, rec |-> FillRecord(self, r, current_center, root1, h)]
       ELSE IF surrounds(ray_t, root2)
            THEN [ret |-> TRUE, rec |-> FillRecord(self, r, current_center, root2, h)]
       ELSE [ret |-> FALSE, rec |-> h]

(* Mutant: a zero discriminant is taken for a miss.                        *)
HitRejectsTangent(self, r, ray_t, h) ==
    LET current_center == RayAt(self.center, r.tm)
        oc             == VSub(current_center, r.orig)
        a              == length_squared(r.dir)
        hh             == dot(r.dir, oc)
        c              == Sub(length_squared(oc), Mul(self.radius, self.radius))
        discriminant   == Sub(Mul(hh, hh), Mul(a, c))
        sqrtd          == Sqrt(discriminant)
        root1          == Div(Sub(hh, sqrtd), a)
        root2          == Div(Add(hh, sqrtd), a)
    IN IF Le(discriminant, I(0)) THEN [ret |-> FALSE, rec |-> h]
       ELSE IF surrounds(ray_t, root1)
            THEN [ret |-> TRUE, rec |-> FillRecord(self, r, current_center, root1, h)]
       ELSE IF surrounds(ray_t, root2)
            THEN [ret |-> TRUE, rec |-> FillRecord(self, r, current_center, root2, h)]
       ELSE [ret |-> FALSE, rec |-> h]

(* Mutant: the last root tried stays in rec.t when no root is in range.    *)
HitWritesBeforeRangeCheck(self, r, ray_t, h) ==
    LET current_center == RayAt(self.center, r.tm)
        oc             == VSub(current_center, r.orig)
        a              == length_squared(r.dir)
        hh             == dot(r.dir, oc)
        c              == Sub(length_squared(oc), Mul(self.radius, self.radius))
        discriminant   == Sub(Mul(hh, hh), Mul(a, c))
        sqrtd          == Sqrt(discriminant)
        root1          == Div(Sub(hh, sqrtd), a)
        root2          == Div(Add(hh, sqrtd), a)
    IN IF Lt(discriminant, I(0)) THEN [ret |-> FALSE, rec |-> h]
       ELSE IF surrounds(ray_t, root1)
            THEN [ret |-> TRUE, rec |-> FillRecord(self, r, current_center, root1, h)]
       ELSE IF surrounds(ray_t, root2)
            THEN [ret |-> TRUE, rec |-> FillRecord(self, r, current_center, root2, h)]
       ELSE [ret |-> FALSE, rec |-> [h EXCEPT !.t = root2]]

(* hit(&self, r, ray_t, rec) -> bool: the returned flag and the record.    *)
Hit(self, r, ray_t, h) ==
    LET current_center == RayAt(self.center, r.tm)
        oc             == VSub(current_center, r.orig)
        a              == length_squared(r.dir)
        hh             == dot(r.dir, oc)
        c              == Sub(length_squared(oc), Mul(self.radius, self.radius))
        discriminant   == Sub(Mul(hh, hh), Mul(a, c))
        sqrtd          == Sqrt(discriminant)
        root1          == Div(Sub(hh, sqrtd), a)
        root2          == Div(Add(hh, sqrtd), a)
    IN IF Lt(discriminant, I(0)) THEN [ret |-> FALSE, rec |-> h]
       ELSE IF surrounds(ray_t, root1)
            THEN [ret |-> TRUE, rec |-> FillRecord(self, r, current_center, root1, h)]
       ELSE IF surrounds(ray_t, root2)
            THEN [ret |-> TRUE, rec |-> FillRecord(self, r, current_center, root2, h)]
       ELSE [ret |-> FALSE, rec |-> h]

bounding_box(self) == self.bbox

-----------------------------------------------------------------------------
(* sphere.rs: the standalone solvers.                                      *)

(* Mutant: b = 2 d.oc, the sign of b lost.                                 *)
hit_sphere_naive_sign(center, radius, r) ==
    LET oc           == VSub(center, r.orig)
        a            == dot(r.dir, r.dir)
        b            == Mul(I(2), dot(r.dir, oc))
        c            == Sub(dot(oc, oc), Mul(radius, radius))
        discriminant == Sub(Mul(b, b), Mul(Mul(I(4), a), c))
    IN IF Lt(discriminant, I(0)) THEN I(-1)
       ELSE Div(Sub(Neg(b), Sqrt(discriminant)), Mul(I(2), a))

hit_sphere_naive(center, radius, r) ==
    LET oc           == VSub(center, r.orig)
        a            == dot(r.dir, r.dir)
        b            == Mul(I(-2), dot(r.dir, oc))
        c            == Sub(dot(oc, oc), Mul(radius, radius))
        discriminant == Sub(Mul(b, b), Mul(Mul(I(4), a), c))
    IN IF Lt(discriminant, I(0)) THEN I(-1)
       ELSE Div(Sub(Neg(b), Sqrt(discriminant)), Mul(I(2), a))

(* Mutant: the larger root is returned.                                    *)
hit_sphere_larger_root(center, radius, r) ==
    LET oc           == VSub(center, r.orig)
        a            == length_squared(r.dir)
        h            == dot(r.dir, oc)
        c            == Sub(length_squared(oc), Mul(radius, radius))
        discriminant == Sub(Mul(h, h), Mul(a, c))
    IN IF Lt(discriminant, I(0)) THEN I(-1)
       ELSE Div(Add(h, Sqrt(discriminant)), a)

hit_sphere(center, radius, r) ==
    LET oc           == VSub(center, r.orig)
        a            == length_squared(r.dir)
        h            == dot(r.dir, oc)
        c            == Sub(length_squared(oc), Mul(radius, radius))
        discriminant == Sub(Mul(h, h), Mul(a, c))
    IN IF Lt(discriminant, I(0)) THEN I(-1)
       ELSE Div(Sub(h, Sqrt(discriminant)), a)

-----------------------------------------------------------------------------
(* The explored inputs.                                                    *)

P3(x, y, z) == <<I(x), I(y), I(z)>>

Materials == {"matte"}

CenterSet == {P3(0, 0, 0), P3(1, 0, -1)}

RadiusSet == {I(n) : n \in -1..MaxRadius}

OriginSet == {P3(x, y, 0) : x \in (-MaxCoord - 1)..0, y \in 0..1}

(* Ray directions are non-zero: the documented precondition of hit.        *)
DirectionSet == {P3(1, 0, 0), P3(1, 1, 0), P3(0, 0, -1)}

TimeSet == {I(0), Rat(1, 2), I(1)}

RaySet == {RayWithTime(o, d, t) : o \in OriginSet, d \in DirectionSet, t \in TimeSet}

PositiveRange == IntervalNew(I(0), Inf(1))

IntervalSet == {PositiveRange, IntervalNew(I(1), I(3))}

-----------------------------------------------------------------------------
(* The caller: constructs one sphere, then calls hit and bounding_box on   *)
(* it with a record it reuses.  The standalone solvers take no sphere and  *)
(* read no state; they are called before the sphere is built.  Until a     *)
(* constructor has run, ctor.kind = "none" and sphere is a placeholder.    *)

NoRay == RayNew(Vec3Default, Vec3Default)

NoInterval == IntervalNew(I(0), I(0))

NoBox == with_boxes(with_points(Vec3Default, Vec3Default), with_points(Vec3Default, Vec3Default))

Idle ==
    [op |-> "idle", r |-> NoRay, ray_t |-> NoInterval, center |-> Vec3Default,
     radius |-> I(0), ret_b |-> FALSE, ret_n |-> I(0), ret_box |-> NoBox]

NoCtor ==
    [kind |-> "none", c0 |-> Vec3Default, c1 |-> Vec3Default, radius |-> I(0),
     material |-> NoMaterial]

Init ==
    /\ sphere = SphereNew(Vec3Default, I(0), NoMaterial)
    /\ ctor = NoCtor
    /\ rec = HitRecordDefault
    /\ call = Idle

New(c, rad, m) ==
    /\ ctor.kind = "none"
    /\ call.op = "idle"
    /\ sphere' = SphereNew(c, rad, m)
    /\ ctor' = [kind |-> "new", c0 |-> c, c1 |-> c, radius |-> rad, material |-> m]
    /\ UNCHANGED <<rec, call>>

NewMoving(c0, c1, rad, m) ==
    /\ ctor.kind = "none"
    /\ call.op = "idle"
    /\ sphere' = SphereNewMoving(c0, c1, rad, m)
    /\ ctor' = [kind |-> "new_moving", c0 |-> c0, c1 |-> c1, radius |-> rad, material |-> m]
    /\ UNCHANGED <<rec, call>>

HitCall(r, ray_t) ==
    /\ ctor.kind # "none"
    /\ call.op = "idle"
    /\ \E res \in {Hit(sphere, r, ray_t, rec)} :
          /\ rec' = res.rec
          /\ call' = [Idle EXCEPT !.op = "hit", !.r = r, !.ray_t = ray_t, !.ret_b = res.ret]
    /\ UNCHANGED <<sphere, ctor>>

BoundingBoxCall ==
    /\ ctor.kind # "none"
    /\ call.op = "idle"
    /\ call' = [Idle EXCEPT !.op = "bounding_box", !.ret_box = bounding_box(sphere)]
    /\ UNCHANGED <<sphere, ctor, rec>>

HitSphereNaiveCall(c, rad, r) ==
    /\ ctor.kind = "none"
    /\ call.op = "idle"
    /\ call' = [Idle EXCEPT !.op = "hit_sphere_naive", !.center = c, !.radius = rad,
                            !.r = r, !.ret_n = hit_sphere_naive(c, rad, r)]
    /\ UNCHANGED <<sphere, ctor, rec>>

HitSphereCall(c, rad, r) ==
    /\ ctor.kind = "none"
    /\ call.op = "idle"
    /\ call' = [Idle EXCEPT !.op = "hit_sphere", !.center = c, !.radius = rad,
                            !.r = r, !.ret_n = hit_sphere(c, rad, r)]
    /\ UNCHANGED <<sphere, ctor, rec>>

Return ==
    /\ call.op # "idle"
    /\ call' = Idle
    /\ UNCHANGED <<sphere, ctor, rec>>

Next ==
    \/ \E c \in CenterSet, rad \in RadiusSet, m \in Materials : New(c, rad, m)
    \/ \E c0 \in CenterSet, c1 \in CenterSet, rad \in RadiusSet, m \in Materials :
          NewMoving(c0, c1, rad, m)
    \/ \E r \in RaySet, ray_t \in IntervalSet : HitCall(r, ray_t)
    \/ BoundingBoxCall
    \/ \E c \in CenterSet, rad \in RadiusSet, r \in RaySet : HitSphereNaiveCall(c, rad, r)
    \/ \E c \in CenterSet, rad \in RadiusSet, r \in RaySet : HitSphereCall(c, rad, r)
    \/ Return

Spec == Init /\ [][Next]_vars

-----------------------------------------------------------------------------
(* The quantities of the last hit call, as the specification names them,   *)
(* computed from the call's inputs: C = center.at(ray.time), a = d.d,      *)
(* h = d.(C - Q), c = (C - Q).(C - Q) - radius^2.                          *)

AfterHit == call.op = "hit"

IsStatic == ctor.kind = "new"

IsMoving == ctor.kind = "new_moving"

CallCenter == VAdd(sphere.center.orig, VScale(call.r.tm, sphere.center.dir))

CallOc == VSub(CallCenter, call.r.orig)

CallA == dot(call.r.dir, call.r.dir)

CallH == dot(call.r.dir, CallOc)

CallC == Sub(dot(CallOc, CallOc), Mul(sphere.radius, sphere.radius))

CallDisc == Sub(Mul(CallH, CallH), Mul(CallA, CallC))

TMinus == Div(Sub(CallH, Sqrt(CallDisc)), CallA)

TPlus == Div(Add(CallH, Sqrt(CallDisc)), CallA)

Inside(t) == Lt(call.ray_t.min, t) /\ Lt(t, call.ray_t.max)

(* t solves a t^2 - 2 h t + c = 0.                                         *)
SolvesQuadratic(t) ==
    Add(Sub(Mul(CallA, Mul(t, t)), Mul(I(2), Mul(CallH, t))), CallC) = I(0)

OutwardNormal == VDiv(VSub(rec.p, CallCenter), sphere.radius)

-----------------------------------------------------------------------------
(* C1: hit returns true exactly when the discriminant is non-negative and  *)
(* a root lies strictly inside the interval; record.t is then the smallest *)
(* root strictly inside (t- whenever both are), it solves the quadratic,   *)
(* and it is never an end of the interval.                                 *)
C1_RootSelection ==
    AfterHit =>
      /\ call.ret_b <=> (~Lt(CallDisc, I(0)) /\ (Inside(TMinus) \/ Inside(TPlus)))
      /\ call.ret_b =>
           /\ rec.t \in {TMinus, TPlus}
           /\ Inside(rec.t)
           /\ SolvesQuadratic(rec.t)
           /\ \A t \in {TMinus, TPlus} : Inside(t) => Le(rec.t, t)
           /\ (Inside(TMinus) /\ Inside(TPlus)) => rec.t = TMinus
           /\ rec.t # call.ray_t.min /\ rec.t # call.ray_t.max

(* The larger root is selected because the smaller one is not inside.      *)
C1_Witness ==
    /\ AfterHit /\ call.ret_b
    /\ TMinus # TPlus /\ ~Inside(TMinus) /\ rec.t = TPlus

-----------------------------------------------------------------------------
(* C2: whenever hit succeeds for a ray whose time is in [0,1], the         *)
(* recorded point lies inside bounding_box() on all three axes.            *)
C2_HitInsideBox ==
    (AfterHit /\ call.ret_b /\ Le(I(0), call.r.tm) /\ Le(call.r.tm, I(1)))
      => InBox(bounding_box(sphere), rec.p)

(* A sphere moving between two distinct centers, built with a negative     *)
(* radius, hit at the middle of the time window.                           *)
C2_Witness ==
    /\ AfterHit /\ call.ret_b /\ IsMoving
    /\ ctor.c0 # ctor.c1 /\ Lt(ctor.radius, I(0)) /\ call.r.tm = Rat(1, 2)

-----------------------------------------------------------------------------
(* C3: after either constructor the stored radius is max(0, r).            *)
C3_RadiusClamped ==
    ctor.kind # "none" => sphere.radius = FMax(I(0), ctor.radius)

-----------------------------------------------------------------------------
(* C4 as stated: on a static sphere a ray whose discriminant is exactly    *)
(* zero is hit, with t- = t+ and front_face = true.                        *)
C4_Original ==
    (AfterHit /\ IsStatic /\ CallDisc = I(0))
      => (call.ret_b /\ TMinus = TPlus /\ rec.front_face = TRUE)

(* C4 amended: on a static sphere a ray whose discriminant is exactly zero *)
(* has t- = t+; hit succeeds exactly when that root is strictly inside the *)
(* interval, record.t is that root, and front_face is false, because       *)
(* direction . outward_normal is then not below zero.                      *)
C4_Tangent ==
    (AfterHit /\ IsStatic /\ CallDisc = I(0))
      => /\ TMinus = TPlus
         /\ call.ret_b <=> Inside(TMinus)
         /\ call.ret_b => (rec.t = TMinus /\ rec.front_face = FALSE)

(* A tangent ray hits a static sphere of positive radius.                  *)
C4_Witness ==
    /\ AfterHit /\ IsStatic /\ CallDisc = I(0)
    /\ call.ret_b /\ Lt(I(0), sphere.radius)

-----------------------------------------------------------------------------
(* C5: after a successful hit direction . normal <= 0, where normal is the *)
(* outward normal (p - C) / radius when direction . outward_normal < 0     *)
(* (front_face true) and its negation otherwise (front_face false).        *)
C5_NormalAgainstRay ==
    (AfterHit /\ call.ret_b)
      => /\ Le(dot(call.r.dir, rec.normal), I(0))
         /\ IF Lt(dot(call.r.dir, OutwardNormal), I(0))
            THEN rec.front_face /\ rec.normal = OutwardNormal
            ELSE ~rec.front_face /\ rec.normal = VNeg(OutwardNormal)

-----------------------------------------------------------------------------
(* C6: after a successful hit |p - C|^2 = radius^2, the stored radius is   *)
(* not zero, and the stored normal has length 1.                           *)
C6_UnitNormal ==
    (AfterHit /\ call.ret_b)
      => /\ length_squared(VSub(rec.p, CallCenter)) = Mul(sphere.radius, sphere.radius)
         /\ sphere.radius # I(0)
         /\ length_squared(rec.normal) = I(1)

-----------------------------------------------------------------------------
(* C7: hit_sphere_naive and hit_sphere return equal results on the same    *)
(* center, radius and ray.                                                 *)
C7_SolversAgree ==
    /\ call.op = "hit_sphere_naive"
         => call.ret_n = hit_sphere(call.center, call.radius, call.r)
    /\ call.op = "hit_sphere"
         => call.ret_n = hit_sphere_naive(call.center, call.radius, call.r)

(* The naive solver returned an irrational smaller root.                   *)
C7_Witness == call.op = "hit_sphere_naive" /\ call.ret_n.q # 0

-----------------------------------------------------------------------------
(* C8 as stated: whenever hit on Sphere::new(center, radius, m) succeeds,  *)
(* hit_sphere(center, radius, ray) equals record.t; and whenever           *)
(* hit_sphere returns -1, hit on that sphere fails for (0, +infinity).     *)
C8_Original ==
    /\ (AfterHit /\ IsStatic /\ call.ret_b)
         => hit_sphere(ctor.c0, ctor.radius, call.r) = rec.t
    /\ (call.op = "hit_sphere" /\ call.ret_n = I(-1))
         => \A m \in Materials :
              ~Hit(SphereNew(call.center, call.radius, m), call.r, PositiveRange,
                   HitRecordDefault).ret

(* C8 amended: whenever hit on Sphere::new(center, radius, m) succeeds     *)
(* and the smaller root is strictly inside the interval, hit_sphere on the *)
(* center, the stored radius and the ray equals record.t; and whenever     *)
(* hit_sphere's discriminant is negative it returns -1 and hit on that     *)
(* sphere fails for every interval.                                        *)
C8_Consistent ==
    /\ (AfterHit /\ IsStatic /\ call.ret_b /\ Inside(TMinus))
         => hit_sphere(ctor.c0, sphere.radius, call.r) = rec.t
    /\ (call.op = "hit_sphere"
          /\ Lt(Sub(Mul(dot(call.r.dir, VSub(call.center, call.r.orig)),
                        dot(call.r.dir, VSub(call.center, call.r.orig))),
                    Mul(dot(call.r.dir, call.r.dir),
                        Sub(dot(VSub(call.center, call.r.orig),
                                VSub(call.center, call.r.orig)),
                            Mul(call.radius, call.radius)))), I(0)))
         => /\ call.ret_n = I(-1)
            /\ \A m \in Materials, ray_t \in IntervalSet :
                 ~Hit(SphereNew(call.center, call.radius, m), call.r, ray_t,
                      HitRecordDefault).ret

(* hit on a static sphere of positive radius selected the smaller root.    *)
C8_Witness ==
    /\ AfterHit /\ IsStatic /\ call.ret_b
    /\ Inside(TMinus) /\ TMinus # TPlus /\ Lt(I(0), ctor.radius)

-----------------------------------------------------------------------------
(* C9: hit on Sphere::new_moving(c0, c1, radius, m) with a ray of time 0   *)
(* gives the result and record of hit on Sphere::new(c0, radius, m), with  *)
(* a ray of time 1 those of Sphere::new(c1, radius, m); and hit on a       *)
(* sphere built by Sphere::new gives the same result for every ray time.   *)
SameOutcome(res) == res.ret = call.ret_b /\ (res.ret => res.rec = rec)

C9_MovingReducesToStatic ==
    AfterHit =>
      /\ (IsMoving /\ call.r.tm = I(0))
           => SameOutcome(Hit(SphereNew(ctor.c0, ctor.radius, ctor.material),
                              call.r, call.ray_t, HitRecordDefault))
      /\ (IsMoving /\ call.r.tm = I(1))
           => SameOutcome(Hit(SphereNew(ctor.c1, ctor.radius, ctor.material),
                              call.r, call.ray_t, HitRecordDefault))
      /\ IsStatic
           => \A t \in TimeSet :
                SameOutcome(Hit(sphere, [call.r EXCEPT !.tm = t], call.ray_t,
                                HitRecordDefault))

-----------------------------------------------------------------------------
(* C10: a hit that returns false leaves every field of the record as it    *)
(* was, and no hit or bounding_box call changes the sphere.                *)
C10_FailedHitWritesNothing ==
    [][/\ (call'.op = "hit" /\ ~call'.ret_b) => rec' = rec
       /\ call'.op \in {"hit", "bounding_box"} => sphere' = sphere]_vars

(* A failed hit on a record that an earlier hit had filled.                *)
C10_Witness == AfterHit /\ ~call.ret_b /\ rec # HitRecordDefault

=============================================================================
